---- MODULE Spec2Model ----
(***************************************************************************)
(* Navigation state machine and view resolution of the Tajweed-ul-Quran   *)
(* viewer (TajweedApp, src/unnamed/part_000 lines 134-621).               *)
(*                                                                         *)
(* The component holds three pieces of React state (selectedChapter,      *)
(* selectedSection, sidebarOpen), reads the viewport class through        *)
(* useIsMobile and the Tailwind `lg:` breakpoint, and renders one of the  *)
(* branches of the main-area conditional.  Every click handler runs to    *)
(* completion and its setState calls are committed in one render, so one  *)
(* click is one action.                                                    *)
(***************************************************************************)
EXTENDS Integers, Sequences, FiniteSets, TLC

\* ------------------------------------------------------------------------
\* Bounds of the model
\* ------------------------------------------------------------------------
MaxChapters == 2
MaxSections == 2
MaxOrder == 2

\* ------------------------------------------------------------------------
\* Values
\* ------------------------------------------------------------------------
\* JavaScript null (useState<string | null>(null)).
None == "<null>"

\* The chapter and section ids of the content file: non-empty strings.
ChapterIdTable == <<"c1", "c2", "c3", "c4">>
SectionIdTable == <<"s1", "s2", "s3", "s4">>

AllChapterIds == {ChapterIdTable[i] : i \in 1..MaxChapters}
AllSectionIds == {SectionIdTable[j] : j \in 1..MaxSections}

\* JavaScript truthiness of a `string | null`: null and "" are falsy.
Truthy(x) == x # None /\ x # ""

\* The viewport classes the component distinguishes: useIsMobile is true on
\* "narrow"; the `lg:hidden` controls are displayed on "narrow" and "medium".
Viewports == {"narrow", "medium", "wide"}

\* ------------------------------------------------------------------------
\* Content file (fiqhContent): chapters -> sections -> content / notes
\* ------------------------------------------------------------------------
\* Section j of chapter i.  The paragraphs name their chapter, so that two
\* sections with the same id in different chapters carry different content.
\* The optional `notes` key is absent, empty or non-empty.
Section(i, j) ==
  LET base == [id |-> SectionIdTable[j],
               content |-> << <<"paragraph", ChapterIdTable[i], SectionIdTable[j]>> >>]
  IN  CASE (i + j) % 3 = 0 -> base
        [] (i + j) % 3 = 1 -> [id |-> base.id, content |-> base.content, notes |-> <<>>]
        [] OTHER -> [id |-> base.id, content |-> base.content,
                     notes |-> << <<"note", ChapterIdTable[i], 1>>,
                                  <<"note", ChapterIdTable[i], 2>> >>]

\* The "icon" key of chapter i: a key of iconMap, a name iconMap does not
\* have, a name every JavaScript object inherits, another key of iconMap.
ChapterIconTable == <<"BookOpen", "Star", "constructor", "N">>

\* Chapter i of the input sequence, with the given order and k sections.
Chapter(i, ord, k) ==
  [id |-> ChapterIdTable[i], order |-> ord, icon |-> ChapterIconTable[i],
   sections |-> [j \in 1..k |-> Section(i, j)]]

\* The content files considered: up to MaxChapters chapters with unique ids,
\* any order values (ties and inversions included), 0..MaxSections sections.
Contents ==
  UNION { { [i \in 1..n |-> Chapter(i, f[i][1], f[i][2])] :
              f \in [1..n -> (1..MaxOrder) \X (0..MaxSections)] } :
          n \in 0..MaxChapters }

\* ------------------------------------------------------------------------
\* State
\* ------------------------------------------------------------------------
VARIABLES
  content,          \* fiqhContent.chapters
  selectedChapter,  \* useState<string | null>(null)
  selectedSection,  \* useState<string | null>(null)
  sidebarOpen,      \* useState(true)
  viewport,         \* the viewport class read by useIsMobile and `lg:`
  lastOp,           \* observation: the last handler run and its argument
  prev,             \* observation: the navigation state before lastOp
  rt,               \* observation: progress through select/select/back/select
  batch,            \* the click handler in progress and its queued state updates
  video,            \* the video script (skills/video-generation/scripts/video.ts)
  themeProvider,    \* a mounted ThemeProvider with its document and localStorage
  debounced,        \* one function returned by debounce(func, wait)
  throttled,        \* one function returned by throttle(func, limit)
  truncated         \* one call of truncate(text, maxLength)

\* The library code the page does not use.
libVars == <<themeProvider, debounced, throttled, truncated>>

vars == <<content, selectedChapter, selectedSection, sidebarOpen, viewport,
          lastOp, prev, rt, batch, video, libVars>>

NotUsed == [pc |-> "notUsed"]
LibNotUsed ==
  /\ themeProvider = NotUsed
  /\ debounced = NotUsed
  /\ throttled = NotUsed
  /\ truncated = NotUsed

\* No click handler is running: nothing is queued.
NoUpdates == [chapter |-> <<>>, section |-> <<>>, sidebar |-> <<>>]
BatchIdle ==
  [pc |-> "idle", arg |-> None, queue |-> NoUpdates,
   start |-> [chapter |-> None, section |-> None, sidebar |-> TRUE]]

\* The video script is a separate process; the page never runs it.
VideoNotStarted ==
  [pc |-> "notStarted", status |-> "none", pollCount |-> 0, queries |-> 0,
   displays |-> 0, exitCode |-> 0, reported |-> "none", threw |-> FALSE]

\* ------------------------------------------------------------------------
\* Derived values of one render
\* ------------------------------------------------------------------------
isMobile == viewport = "narrow"

\* Controls with className "lg:hidden" are displayed below the lg breakpoint.
lgHiddenShown == viewport # "wide"

sidebarShouldBeOpen == ~isMobile \/ ~Truthy(selectedChapter)
isSidebarOpen == IF sidebarOpen THEN sidebarShouldBeOpen ELSE FALSE

\* Array.prototype.find: the first element satisfying the test, as a
\* sequence of length 1, or <<>> for undefined.
RECURSIVE FindById(_, _)
FindById(seq, id) ==
  IF seq = <<>> THEN <<>>
  ELSE IF Head(seq).id = id THEN <<Head(seq)>>
  ELSE FindById(Tail(seq), id)

ChapterData(cont, cid) == FindById(cont, cid)
\* A lookup over the sections of all chapters, first match.
RECURSIVE AllSections(_)
AllSections(cont) ==
  IF cont = <<>> THEN <<>> ELSE Head(cont).sections \o AllSections(Tail(cont))

SectionData_Global(chOpt, sid) ==
  IF chOpt = <<>> THEN <<>> ELSE FindById(AllSections(content), sid)

\* selectedChapterData?.sections.find(...): undefined when the chapter is.
SectionData(chOpt, sid) ==
  IF chOpt = <<>> THEN <<>> ELSE FindById(chOpt[1].sections, sid)

selectedChapterData == ChapterData(content, selectedChapter)
selectedSectionData == SectionData(selectedChapterData, selectedSection)

\* [...chapters].sort((a, b) => a.order - b.order): a stable sort of a copy.
\* Insert x behind every element e with e.order - x.order <= 0.
RECURSIVE InsertByOrder_BeforeEqual(_, _)
InsertByOrder_BeforeEqual(sorted, x) ==
  IF sorted = <<>> THEN <<x>>
  ELSE IF Head(sorted).order - x.order < 0
       THEN <<Head(sorted)>> \o InsertByOrder_BeforeEqual(Tail(sorted), x)
       ELSE <<x>> \o sorted

RECURSIVE InsertByOrder(_, _)
InsertByOrder(sorted, x) ==
  IF sorted = <<>> THEN <<x>>
  ELSE IF Head(sorted).order - x.order <= 0
       THEN <<Head(sorted)>> \o InsertByOrder(Tail(sorted), x)
       ELSE <<x>> \o sorted

RECURSIVE SortByOrder(_)
SortByOrder(seq) ==
  IF seq = <<>> THEN <<>>
  ELSE InsertByOrder(SortByOrder(SubSeq(seq, 1, Len(seq) - 1)), seq[Len(seq)])

sortedChapters == SortByOrder(content)

\* The main-area conditional.
ViewOf(cont, ch, sec) ==
  IF ~Truthy(ch) THEN "ChapterList"
  ELSE IF ChapterData(cont, ch) # <<>> /\ ~Truthy(sec) THEN "SectionList"
  ELSE IF SectionData(ChapterData(cont, ch), sec) # <<>> /\ ChapterData(cont, ch) # <<>>
       THEN "SectionDetail"
  ELSE "Blank"

MainView == ViewOf(content, selectedChapter, selectedSection)

\* The mobile overlay (fixed inset-0 z-40) lies over the main area.
overlayShown == isSidebarOpen /\ isMobile
mainClickable == ~overlayShown

\* ------------------------------------------------------------------------
\* Observation variables
\* ------------------------------------------------------------------------
NoData == << <<>>, <<>> >>
RtIdle == [stage |-> 0, chapter |-> None, section |-> None, data |-> NoData]

\* The monitor of the sequence selectChapter(X); selectSection(Y);
\* backToSections(); selectSection(Y).  Stage 2 keeps the navigation state
\* and the data resolved after the first selectSection(Y).
RtNext(name, arg) ==
  CASE name = "selectChapter" ->
         [stage |-> 1, chapter |-> arg, section |-> None, data |-> NoData]
    [] name = "selectSection" /\ rt.stage = 1 ->
         [stage |-> 2, chapter |-> selectedChapter', section |-> selectedSection',
          data |-> <<ChapterData(content, selectedChapter'),
                     SectionData(ChapterData(content, selectedChapter'),
                                 selectedSection')>>]
    [] name = "selectSection" /\ rt.stage = 3 /\ arg = rt.section ->
         [rt EXCEPT !.stage = 4]
    [] name = "back" /\ rt.stage = 2 -> [rt EXCEPT !.stage = 3]
    [] OTHER -> RtIdle

Observe(name, arg) ==
  /\ lastOp' = [name |-> name, arg |-> arg]
  /\ prev' = [chapter |-> selectedChapter, section |-> selectedSection,
              sidebar |-> sidebarOpen]
  /\ rt' = RtNext(name, arg)

\* ------------------------------------------------------------------------
\* Handlers
\* ------------------------------------------------------------------------
handleChapterClick_KeepsSection(chapterId) ==
  /\ selectedChapter' = chapterId
  /\ selectedSection' = selectedSection
  /\ sidebarOpen' = IF isMobile THEN FALSE ELSE sidebarOpen

handleChapterClick_ResetsOnChange(chapterId) ==
  /\ selectedChapter' = chapterId
  /\ selectedSection' = IF chapterId # selectedChapter THEN None ELSE selectedSection
  /\ sidebarOpen' = IF isMobile THEN FALSE ELSE sidebarOpen

handleChapterClick_AlwaysCloses(chapterId) ==
  /\ selectedChapter' = chapterId
  /\ selectedSection' = None
  /\ sidebarOpen' = FALSE

handleChapterClick(chapterId) ==
  /\ selectedChapter' = chapterId
  /\ selectedSection' = None
  /\ sidebarOpen' = IF isMobile THEN FALSE ELSE sidebarOpen

handleSectionClick_ClosesSidebar(sectionId) ==
  /\ selectedSection' = sectionId
  /\ sidebarOpen' = FALSE
  /\ UNCHANGED selectedChapter

handleSectionClick(sectionId) ==
  /\ selectedSection' = sectionId
  /\ UNCHANGED <<selectedChapter, sidebarOpen>>

handleBackToChapters_ClearsChapter ==
  /\ selectedChapter' = None
  /\ UNCHANGED <<selectedSection, sidebarOpen>>

handleBackToChapters_ToFirstChapter ==
  /\ selectedSection' = None
  /\ selectedChapter' = IF sortedChapters = <<>> THEN None ELSE sortedChapters[1].id
  /\ UNCHANGED sidebarOpen

handleBackToChapters_ToChapterList ==
  /\ selectedSection' = None
  /\ selectedChapter' = None
  /\ UNCHANGED sidebarOpen

handleBackToChapters ==
  /\ selectedSection' = None
  /\ UNCHANGED <<selectedChapter, sidebarOpen>>

\* onClick={() => setSidebarOpen(!isSidebarOpen)}
toggleSidebar ==
  /\ sidebarOpen' = ~isSidebarOpen
  /\ UNCHANGED <<selectedChapter, selectedSection>>

closeSidebar_ResetsSelection ==
  /\ sidebarOpen' = FALSE
  /\ selectedChapter' = None
  /\ selectedSection' = None

\* onClick={() => setSidebarOpen(false)}
closeSidebar ==
  /\ sidebarOpen' = FALSE
  /\ UNCHANGED <<selectedChapter, selectedSection>>

\* ------------------------------------------------------------------------
\* User actions: a control can be clicked only while it is rendered
\* ------------------------------------------------------------------------
Init ==
  /\ content \in Contents
  /\ selectedChapter = None
  /\ selectedSection = None
  /\ sidebarOpen = TRUE
  /\ viewport \in Viewports
  /\ lastOp = [name |-> "init", arg |-> None]
  /\ prev = [chapter |-> None, section |-> None, sidebar |-> TRUE]
  /\ rt = RtIdle
  /\ batch = BatchIdle
  /\ video = VideoNotStarted
  /\ LibNotUsed

\* A chapter button of the sidebar (rendered while isSidebarOpen).
SidebarChapterClick ==
  /\ isSidebarOpen
  /\ \E k \in 1..Len(sortedChapters) :
       /\ handleChapterClick(sortedChapters[k].id)
       /\ Observe("selectChapter", sortedChapters[k].id)
  /\ UNCHANGED <<content, viewport, video, batch, libVars>>

\* A chapter card of the home view.
ChapterCardClick ==
  /\ MainView = "ChapterList"
  /\ mainClickable
  /\ \E k \in 1..Len(sortedChapters) :
       /\ handleChapterClick(sortedChapters[k].id)
       /\ Observe("selectChapter", sortedChapters[k].id)
  /\ UNCHANGED <<content, viewport, video, batch, libVars>>

\* A section card of the chapter view.
SectionCardClick ==
  /\ MainView = "SectionList"
  /\ mainClickable
  /\ \E k \in 1..Len(selectedChapterData[1].sections) :
       /\ handleSectionClick(selectedChapterData[1].sections[k].id)
       /\ Observe("selectSection", selectedChapterData[1].sections[k].id)
  /\ UNCHANGED <<content, viewport, video, batch, libVars>>

\* The breadcrumb button of the section view.
BreadcrumbClick ==
  /\ MainView = "SectionDetail"
  /\ mainClickable
  /\ handleBackToChapters
  /\ Observe("back", None)
  /\ UNCHANGED <<content, viewport, video, batch, libVars>>

\* The header menu button (lg:hidden).
HeaderToggleClick ==
  /\ lgHiddenShown
  /\ toggleSidebar
  /\ Observe("toggle", None)
  /\ UNCHANGED <<content, viewport, video, batch, libVars>>

\* The mobile overlay behind the sidebar.
OverlayClick ==
  /\ overlayShown
  /\ closeSidebar
  /\ Observe("overlay", None)
  /\ UNCHANGED <<content, viewport, video, batch, libVars>>

\* The close button inside the sidebar (lg:hidden).
SidebarCloseClick ==
  /\ isSidebarOpen
  /\ lgHiddenShown
  /\ closeSidebar
  /\ Observe("close", None)
  /\ UNCHANGED <<content, viewport, video, batch, libVars>>

\* The window crosses a breakpoint: useIsMobile re-renders the component.
Resize ==
  /\ \E v \in Viewports \ {viewport} : viewport' = v
  /\ UNCHANGED <<content, selectedChapter, selectedSection, sidebarOpen, video, batch, libVars>>
  /\ Observe("resize", None)

Next ==
  \/ SidebarChapterClick
  \/ ChapterCardClick
  \/ SectionCardClick
  \/ BreadcrumbClick
  \/ HeaderToggleClick
  \/ OverlayClick
  \/ SidebarCloseClick
  \/ Resize

Spec == Init /\ [][Next]_vars

\* ------------------------------------------------------------------------
\* The content file replaced under a running component
\* ------------------------------------------------------------------------
\* The content file is edited while the page is open (docs/README.md: all
\* content is managed through the JSON file).  The development server's hot
\* reload re-evaluates the import and keeps the component's state, so the
\* selection may then name a chapter or a section that is gone.
ReloadContent ==
  /\ \E c \in Contents \ {content} : content' = c
  /\ UNCHANGED <<selectedChapter, selectedSection, sidebarOpen, viewport, video, batch, libVars>>
  /\ Observe("reload", None)

NextReload ==
  \/ Next
  \/ ReloadContent

SpecReload == Init /\ [][NextReload]_vars

\* ------------------------------------------------------------------------
\* The handlers called directly, in any state and with any id
\* ------------------------------------------------------------------------
CallHandleChapterClick ==
  /\ \E c \in AllChapterIds : handleChapterClick(c) /\ Observe("selectChapter", c)
  /\ UNCHANGED <<content, viewport, video, batch, libVars>>

CallHandleSectionClick ==
  /\ \E s \in AllSectionIds : handleSectionClick(s) /\ Observe("selectSection", s)
  /\ UNCHANGED <<content, viewport, video, batch, libVars>>

CallHandleBackToChapters ==
  /\ handleBackToChapters
  /\ Observe("back", None)
  /\ UNCHANGED <<content, viewport, video, batch, libVars>>

CallToggleSidebar ==
  /\ toggleSidebar
  /\ Observe("toggle", None)
  /\ UNCHANGED <<content, viewport, video, batch, libVars>>

CallCloseSidebar ==
  /\ closeSidebar
  /\ Observe("close", None)
  /\ UNCHANGED <<content, viewport, video, batch, libVars>>

NextHandlers ==
  \/ CallHandleChapterClick
  \/ CallHandleSectionClick
  \/ CallHandleBackToChapters
  \/ CallToggleSidebar
  \/ CallCloseSidebar

SpecHandlers == Init /\ [][NextHandlers]_vars

\* ------------------------------------------------------------------------
\* Properties
\* ------------------------------------------------------------------------
PrevView == ViewOf(content, prev.chapter, prev.section)

\* C1: in every state reachable through the rendered controls, a selected
\* section implies a selected chapter.
C1_SelectionInvariant == selectedSection # None => selectedChapter # None

C1_Witness ==
  /\ lastOp.name = "selectSection"
  /\ selectedSection # None
  /\ selectedChapter # None

\* C2: after selectChapter(chapterId) the selected chapter is chapterId and
\* no section is selected, whatever section was selected before.
C2_ChapterClickResetsSection ==
  lastOp.name = "selectChapter" =>
    /\ selectedChapter = lastOp.arg
    /\ selectedSection = None

\* The selected chapter clicked again from its section view.
C2_Witness ==
  /\ lastOp.name = "selectChapter"
  /\ PrevView = "SectionDetail"
  /\ prev.chapter = lastOp.arg
  /\ selectedSection = None

\* C3: a selected chapter id that no longer resolves shows the chapter list.
C3_ChapterDegradation ==
  (Truthy(selectedChapter) /\ selectedChapterData = <<>>) => MainView = "ChapterList"

\* C4: a selected section id that does not resolve under the resolved
\* chapter shows that chapter's section list.
C4_SectionDegradation ==
  (/\ selectedChapterData # <<>>
   /\ Truthy(selectedSection)
   /\ selectedSectionData = <<>>) => MainView = "SectionList"

\* C5: with the content fixed, every reachable state shows exactly the mode
\* its selection names, and the main area is never blank.
C5_ViewTotalExclusive ==
  /\ MainView \in {"ChapterList", "SectionList", "SectionDetail"}
  /\ MainView = "ChapterList" <=> selectedChapter = None
  /\ MainView = "SectionList" <=> (selectedChapter # None /\ selectedSection = None)
  /\ MainView = "SectionDetail" <=> (selectedChapter # None /\ selectedSection # None)

\* A chapter entered from the section view of another chapter.
C5_Witness ==
  /\ lastOp.name = "selectChapter"
  /\ PrevView = "SectionDetail"
  /\ prev.chapter # selectedChapter
  /\ MainView = "SectionList"

\* C6: backToSections clears the section and keeps the chapter, in whatever
\* state it is called; from a section view it yields the section list.
C6_BackKeepsChapter ==
  lastOp.name = "back" =>
    /\ selectedChapter = prev.chapter
    /\ selectedSection = None
    /\ PrevView = "SectionDetail" => MainView = "SectionList"

C6_Witness ==
  /\ lastOp.name = "back"
  /\ PrevView = "SectionDetail"
  /\ MainView = "SectionList"
  /\ selectedChapter = prev.chapter

\* C7: selectChapter(X); selectSection(Y); backToSections(); selectSection(Y)
\* ends in the navigation state, and resolves the chapter and section data,
\* of the first selectSection(Y).
C7_RoundTrip ==
  rt.stage = 4 =>
    /\ selectedChapter = rt.chapter
    /\ selectedSection = rt.section
    /\ <<selectedChapterData, selectedSectionData>> = rt.data
    /\ MainView = "SectionDetail"

C7_Witness ==
  /\ rt.stage = 4
  /\ MainView = "SectionDetail"
  /\ selectedSectionData # <<>>

\* Position of the chapter with the given id in a chapter sequence.
PosOf(seq, id) == CHOOSE k \in 1..Len(seq) : seq[k].id = id

SortedOK ==
  /\ Len(sortedChapters) = Len(content)
  /\ {sortedChapters[k] : k \in 1..Len(sortedChapters)} = {content[k] : k \in 1..Len(content)}
  /\ \A i, j \in 1..Len(sortedChapters) :
       i < j =>
         /\ sortedChapters[i].order <= sortedChapters[j].order
         /\ sortedChapters[i].order = sortedChapters[j].order =>
              PosOf(content, sortedChapters[i].id) < PosOf(content, sortedChapters[j].id)

\* C8: the chapters shown are the content's chapters in ascending order,
\* chapters of equal order keep their input positions, and rendering never
\* reorders the input sequence.
C8_SortStable == []SortedOK /\ [][content' = content]_vars

\* Two chapters of equal order, shown in input order.
C8_Witness ==
  /\ Len(content) = 2
  /\ content[1].order = content[2].order
  /\ sortedChapters = content
  /\ lastOp.name = "selectChapter"

\* C9: selectChapter closes the sidebar on a narrow viewport and leaves the
\* sidebar flag as it was on any other viewport.
C9_SidebarEffect ==
  lastOp.name = "selectChapter" =>
    sidebarOpen = (IF viewport = "narrow" THEN FALSE ELSE prev.sidebar)

C9_Witness ==
  /\ lastOp.name = "selectChapter"
  /\ viewport = "narrow"
  /\ prev.sidebar = TRUE
  /\ sidebarOpen = FALSE

\* C10: the header toggle, the close button and the overlay leave the
\* selected chapter and the selected section as they were.
C10_SidebarOpsKeepSelection ==
  lastOp.name \in {"toggle", "close", "overlay"} =>
    /\ selectedChapter = prev.chapter
    /\ selectedSection = prev.section

C10_Witness ==
  /\ lastOp.name = "close"
  /\ selectedSection # None
  /\ prev.sidebar = TRUE
  /\ sidebarOpen = FALSE

\* C11: selectSection(sectionId) selects that section and leaves the chapter
\* and the sidebar flag as they were; the view is the section detail of the
\* selected chapter and that section.
C11_SectionClickFrame ==
  lastOp.name = "selectSection" =>
    /\ selectedSection = lastOp.arg
    /\ selectedChapter = prev.chapter
    /\ sidebarOpen = prev.sidebar
    /\ MainView = "SectionDetail"
    /\ selectedChapterData # <<>> /\ selectedChapterData[1].id = prev.chapter
    /\ selectedSectionData # <<>> /\ selectedSectionData[1].id = lastOp.arg

C11_Witness ==
  /\ lastOp.name = "selectSection"
  /\ prev.chapter # None
  /\ prev.section = None
  /\ prev.sidebar = TRUE
  /\ MainView = "SectionDetail"

\* ------------------------------------------------------------------------
\* Page-level events: the links to "/" and a reload of the page
\* ------------------------------------------------------------------------
mount_KeepsSelection ==
  /\ sidebarOpen' = TRUE
  /\ UNCHANGED <<selectedChapter, selectedSection>>

\* The component mounts with its useState initial values; nothing is read
\* from storage.
mount ==
  /\ selectedChapter' = None
  /\ selectedSection' = None
  /\ sidebarOpen' = TRUE

\* The browser reloads the page: the component is mounted anew over the same
\* bundled content.
PageReload ==
  /\ mount
  /\ Observe("pageReload", None)
  /\ UNCHANGED <<content, viewport, video, batch, libVars>>

\* A <Link href="/"> (header "Home", "واپس", "ہوم"): the page is the "/"
\* route (docs/README.md, src/app/page.tsx), so the navigation keeps the
\* mounted component and its state.
HomeLinkClick ==
  /\ UNCHANGED <<selectedChapter, selectedSection, sidebarOpen>>
  /\ Observe("homeLink", None)
  /\ UNCHANGED <<content, viewport, video, batch, libVars>>

NextPage ==
  \/ Next
  \/ HomeLinkClick
  \/ PageReload

SpecPage == Init /\ [][NextPage]_vars

\* The sidebar as displayed before the last operation (the viewport is the
\* one of that render: only Resize changes it).
PrevSidebarShown == prev.sidebar /\ (~isMobile \/ ~Truthy(prev.chapter))

\* C12: the sidebar is displayed exactly when the sidebar flag is set, and a
\* toggle of a hidden sidebar displays it, with or without a selected chapter.
C12_SidebarIndependent ==
  /\ isSidebarOpen <=> sidebarOpen
  /\ (lastOp.name = "toggle" /\ ~PrevSidebarShown) => isSidebarOpen

\* C13: the component starts, and restarts after a reload from any state,
\* with no chapter, no section and the sidebar flag set: the chapter list
\* with all chapters.
C13_InitialAndReload ==
  lastOp.name \in {"init", "pageReload"} =>
    /\ selectedChapter = None
    /\ selectedSection = None
    /\ sidebarOpen = TRUE
    /\ isSidebarOpen
    /\ MainView = "ChapterList"
    /\ Len(sortedChapters) = Len(content)

\* A reload from a section view with the sidebar closed.
C13_Witness ==
  /\ lastOp.name = "pageReload"
  /\ PrevView = "SectionDetail"
  /\ prev.sidebar = FALSE
  /\ selectedChapter = None
  /\ sidebarOpen = TRUE

\* The section is one of the sections of the chapter.
SectionOf(ch, sec) == \E k \in 1..Len(ch.sections) : ch.sections[k] = sec

\* C14: whenever a section is selected, the section resolved and displayed
\* is a section of the selected chapter, also when another chapter has a
\* section with the same id.
C14_ChapterScopedLookup ==
  selectedSection # None =>
    /\ selectedChapterData # <<>>
    /\ selectedChapterData[1].id = selectedChapter
    /\ selectedSectionData # <<>>
    /\ SectionOf(selectedChapterData[1], selectedSectionData[1])
    /\ \A k \in 1..Len(content) :
         content[k].id # selectedChapter =>
           ~SectionOf(content[k], selectedSectionData[1])

\* The selected section id also names a section of an earlier chapter.
C14_Witness ==
  /\ MainView = "SectionDetail"
  /\ Len(content) = 2
  /\ selectedChapter = content[2].id
  /\ FindById(content[1].sections, selectedSection) # <<>>
  /\ SectionOf(content[2], selectedSectionData[1])

\* ------------------------------------------------------------------------
\* handleChapterClick statement by statement
\* ------------------------------------------------------------------------
\* A state setter called inside an event handler queues its value; React
\* renders once the handler has returned, with every queued value applied.
\* JavaScript runs the handler to completion: no other event is handled
\* while batch.pc # "idle".
Nav == [chapter |-> selectedChapter, section |-> selectedSection, sidebar |-> sidebarOpen]

\* onClick={() => handleChapterClick(chapter.id)} of a sidebar button or a
\* chapter card.
ChapterClickBegin ==
  /\ batch.pc = "idle"
  /\ isSidebarOpen \/ (MainView = "ChapterList" /\ mainClickable)
  /\ \E k \in 1..Len(sortedChapters) :
       batch' = [pc |-> "setSelectedChapter", arg |-> sortedChapters[k].id,
                 queue |-> NoUpdates, start |-> Nav]
  /\ UNCHANGED <<content, selectedChapter, selectedSection, sidebarOpen, viewport,
                 lastOp, prev, rt, video, libVars>>

CallSetSelectedChapter_Immediate ==
  /\ batch.pc = "setSelectedChapter"
  /\ selectedChapter' = batch.arg
  /\ batch' = [batch EXCEPT !.pc = "setSelectedSection"]
  /\ UNCHANGED <<content, selectedSection, sidebarOpen, viewport,
                 lastOp, prev, rt, video, libVars>>

\* setSelectedChapter(chapterId)
CallSetSelectedChapter ==
  /\ batch.pc = "setSelectedChapter"
  /\ batch' = [batch EXCEPT !.pc = "setSelectedSection",
                            !.queue.chapter = <<batch.arg>>]
  /\ UNCHANGED <<content, selectedChapter, selectedSection, sidebarOpen, viewport,
                 lastOp, prev, rt, video, libVars>>

\* setSelectedSection(null)
CallSetSelectedSection ==
  /\ batch.pc = "setSelectedSection"
  /\ batch' = [batch EXCEPT !.pc = "ifMobile", !.queue.section = <<None>>]
  /\ UNCHANGED <<content, selectedChapter, selectedSection, sidebarOpen, viewport,
                 lastOp, prev, rt, video, libVars>>

\* if (isMobile) { setSidebarOpen(false) }
CallSetSidebarOpen ==
  /\ batch.pc = "ifMobile"
  /\ batch' = [batch EXCEPT !.pc = "return",
                            !.queue.sidebar = IF isMobile THEN <<FALSE>> ELSE <<>>]
  /\ UNCHANGED <<content, selectedChapter, selectedSection, sidebarOpen, viewport,
                 lastOp, prev, rt, video, libVars>>

\* The handler returns and React renders with the queued values.
CommitBatch ==
  /\ batch.pc = "return"
  /\ selectedChapter' =
       IF batch.queue.chapter = <<>> THEN selectedChapter ELSE batch.queue.chapter[1]
  /\ selectedSection' =
       IF batch.queue.section = <<>> THEN selectedSection ELSE batch.queue.section[1]
  /\ sidebarOpen' =
       IF batch.queue.sidebar = <<>> THEN sidebarOpen ELSE batch.queue.sidebar[1]
  /\ batch' = BatchIdle
  /\ Observe("selectChapter", batch.arg)
  /\ UNCHANGED <<content, viewport, video, libVars>>

\* The other events, handled only between handlers.
BetweenHandlers ==
  /\ batch.pc = "idle"
  /\ \/ SectionCardClick
     \/ BreadcrumbClick
     \/ HeaderToggleClick
     \/ SidebarCloseClick

NextBatch ==
  \/ ChapterClickBegin
  \/ CallSetSelectedChapter
  \/ CallSetSelectedSection
  \/ CallSetSidebarOpen
  \/ CommitBatch
  \/ BetweenHandlers

SpecBatch == Init /\ [][NextBatch]_vars

\* C15: the updates of selectChapter become visible together, once the
\* handler has returned: while it runs the state is the one it started from,
\* and no state shows the new chapter with the section selected before.
C15_ChapterClickAtomic ==
  /\ batch.pc # "idle" => Nav = batch.start
  /\ (batch.pc = "idle" /\ lastOp.name = "selectChapter") =>
       /\ selectedChapter = lastOp.arg
       /\ ~(prev.section # None /\ selectedSection = prev.section)

\* The handler, started from the section view of another chapter, has called
\* setSelectedChapter and not yet setSelectedSection.
C15_Witness ==
  /\ batch.pc = "setSelectedSection"
  /\ batch.queue.chapter = <<batch.arg>>
  /\ batch.start.section # None
  /\ batch.arg # batch.start.chapter
  /\ selectedChapter = batch.start.chapter

\* ------------------------------------------------------------------------
\* Notes of the section view
\* ------------------------------------------------------------------------
NotesSection_NoLengthTest(sec) ==
  IF "notes" \in DOMAIN sec
    THEN [heading |-> TRUE,
          blocks |-> [k \in 1..Len(sec.notes) |->
                        [badge |-> (k - 1) + 1, note |-> sec.notes[k]]]]
    ELSE [heading |-> FALSE, blocks |-> <<>>]

\* {notes && notes.length > 0 && (<h3/> ... notes.map((note, index) => ...))}:
\* the heading and one block per note, the block of array index `index`
\* (k - 1 here) with the badge index + 1; nothing otherwise.
NotesSection(sec) ==
  IF "notes" \in DOMAIN sec /\ Len(sec.notes) > 0
    THEN [heading |-> TRUE,
          blocks |-> [k \in 1..Len(sec.notes) |->
                        [badge |-> (k - 1) + 1, note |-> sec.notes[k]]]]
    ELSE [heading |-> FALSE, blocks |-> <<>>]

\* The section with its notes key set to the empty array.
WithEmptyNotes(sec) == [id |-> sec.id, content |-> sec.content, notes |-> <<>>]

\* C16: in the section view, a section without the notes key renders as one
\* with notes = [] (no heading, no block); non-empty notes render the
\* heading and one block per note, in order, the i-th with badge i.
C16_NotesRendering ==
  MainView = "SectionDetail" =>
    LET sec == selectedSectionData[1]
        out == NotesSection(sec)
    IN  /\ NotesSection(WithEmptyNotes(sec)) = [heading |-> FALSE, blocks |-> <<>>]
        /\ "notes" \notin DOMAIN sec => out = NotesSection(WithEmptyNotes(sec))
        /\ ("notes" \in DOMAIN sec /\ sec.notes # <<>>) =>
             /\ out.heading
             /\ Len(out.blocks) = Len(sec.notes)
             /\ \A i \in 1..Len(sec.notes) :
                  out.blocks[i] = [badge |-> i, note |-> sec.notes[i]]

\* A section without the notes key is displayed, in a chapter that also has
\* a section with notes.
C16_Witness ==
  /\ MainView = "SectionDetail"
  /\ "notes" \notin DOMAIN selectedSectionData[1]
  /\ \E k \in 1..Len(selectedChapterData[1].sections) :
       LET s == selectedChapterData[1].sections[k]
       IN  "notes" \in DOMAIN s /\ Len(s.notes) = 2

\* ------------------------------------------------------------------------
\* Chapter icons
\* ------------------------------------------------------------------------
\* The keys of the iconMap object literal.
iconMapKeys == {"BookOpen", "MapPin", "Sparkles", "N", "M", "Clock", "Pause", "A", "Scale"}

\* iconMap[key], a property read of a plain object: the component of an own
\* key, the inherited value of a name of Object.prototype, else undefined.
iconMap(key) ==
  IF key \in iconMapKeys THEN "component"
  ELSE IF key \in {"constructor"} THEN "inherited"
  ELSE "undefined"

\* {Icon && <Icon className=... />}: undefined renders nothing; an inherited
\* value is truthy and is rendered as a component, which React rejects.
IconRender(key) ==
  CASE iconMap(key) = "component" -> "glyph"
    [] iconMap(key) = "undefined" -> "nothing"
    [] OTHER -> "error"

\* C17: every chapter shown in the sidebar or on a chapter card gets a glyph
\* for its icon key, also for a key the icon table does not have.
C17_IconLookupTotal ==
  (isSidebarOpen \/ MainView = "ChapterList") =>
    \A k \in 1..Len(sortedChapters) : IconRender(sortedChapters[k].icon) = "glyph"

\* ------------------------------------------------------------------------
\* What the user can reach on one viewport class without leaving the page
\* ------------------------------------------------------------------------
NextFixed ==
  \/ SidebarChapterClick
  \/ ChapterCardClick
  \/ SectionCardClick
  \/ BreadcrumbClick
  \/ HeaderToggleClick
  \/ OverlayClick
  \/ SidebarCloseClick
  \/ HomeLinkClick

SpecFixed == Init /\ [][NextFixed]_vars

\* The navigation states one click away from n, for content cont on viewport
\* vp: the handlers above applied to the controls rendered in n.
NavSucc(cont, vp, n) ==
  LET view == ViewOf(cont, n.chapter, n.section)
      shown == IF n.sidebar THEN (vp # "narrow" \/ ~Truthy(n.chapter)) ELSE FALSE
      clickable == ~(shown /\ vp = "narrow")
      chapterIds == {cont[k].id : k \in 1..Len(cont)}
      sections == IF ChapterData(cont, n.chapter) = <<>> THEN <<>>
                  ELSE ChapterData(cont, n.chapter)[1].sections
      chapterClicks ==
        IF shown \/ (view = "ChapterList" /\ clickable)
          THEN {[chapter |-> c, section |-> None,
                 sidebar |-> IF vp = "narrow" THEN FALSE ELSE n.sidebar] : c \in chapterIds}
          ELSE {}
      sectionClicks ==
        IF view = "SectionList" /\ clickable
          THEN {[n EXCEPT !.section = sections[k].id] : k \in 1..Len(sections)}
          ELSE {}
      backClicks ==
        IF view = "SectionDetail" /\ clickable
          THEN {[n EXCEPT !.section = None]} ELSE {}
      toggleClicks ==
        IF vp # "wide" THEN {[n EXCEPT !.sidebar = ~shown]} ELSE {}
      closeClicks ==
        IF shown /\ vp # "wide" THEN {[n EXCEPT !.sidebar = FALSE]} ELSE {}
  IN  chapterClicks \cup sectionClicks \cup backClicks \cup toggleClicks
        \cup closeClicks \cup {n}

\* The navigation states reachable from the states S by any number of clicks.
RECURSIVE NavReach(_, _, _)
NavReach(cont, vp, S) ==
  LET T == S \cup UNION {NavSucc(cont, vp, n) : n \in S}
  IN  IF T = S THEN S ELSE NavReach(cont, vp, T)

\* NavSucc is the step relation of NextFixed: every step lands in it, and
\* every state in it is one step away.
NavSuccCoversSteps == [][Nav' \in NavSucc(content, viewport, Nav)]_vars
NavSuccIsOneStep ==
  \A m \in NavSucc(content, viewport, Nav) : ENABLED (NextFixed /\ Nav' = m)

\* C18: on a fixed viewport class, from every reachable state every other
\* chapter of the content can be selected by some sequence of clicks.
C18_NoDeadEnd ==
  \A k \in 1..Len(content) :
    content[k].id # selectedChapter =>
      \E n \in NavReach(content, viewport, {Nav}) : n.chapter = content[k].id

\* C19: once a chapter is selected, no click handler and no link returns to
\* "no chapter selected": outside a page reload the chapter list is shown
\* only while no chapter has been selected yet.
C19_ChapterNeverCleared ==
  (prev.chapter # None /\ lastOp.name # "pageReload") =>
    /\ selectedChapter # None
    /\ MainView # "ChapterList"

C19_Witness ==
  /\ lastOp.name = "back"
  /\ prev.chapter # None
  /\ selectedChapter = prev.chapter
  /\ MainView = "SectionList"

\* ------------------------------------------------------------------------
\* The video script: main() -> create() -> query() -> displayResult()
\* ------------------------------------------------------------------------
\* const maxPolls = 30
maxPolls == 30

\* result.task_status
TaskStatuses == {"PROCESSING", "SUCCESS", "FAIL"}

navVars == <<content, selectedChapter, selectedSection, sidebarOpen, viewport,
             lastOp, prev, rt, batch>>

\* The script runs on its own: no page is involved.
InitVideo ==
  /\ content = <<>>
  /\ selectedChapter = None
  /\ selectedSection = None
  /\ sidebarOpen = TRUE
  /\ viewport = "wide"
  /\ lastOp = [name |-> "init", arg |-> None]
  /\ prev = [chapter |-> None, section |-> None, sidebar |-> TRUE]
  /\ rt = RtIdle
  /\ batch = BatchIdle
  /\ video = [pc |-> "create", status |-> "none", pollCount |-> 0, queries |-> 0,
              displays |-> 0, exitCode |-> 0, reported |-> "none", threw |-> FALSE]
  /\ LibNotUsed

\* A rejected await: the catch of create() or query() logs and rethrows,
\* the catch of main() logs and calls process.exit(1).
VideoThrown_ExitZero == [video EXCEPT !.threw = TRUE, !.pc = "exited"]

VideoThrown == [video EXCEPT !.threw = TRUE, !.pc = "exited", !.exitCode = 1]

displayResult_ExhaustionAsFail(task_status, videoUrl) ==
  IF task_status = "SUCCESS"
    THEN IF videoUrl THEN "success" ELSE "successNoUrl"
    ELSE IF task_status \in {"PROCESSING", "FAIL"} THEN "failed"
    ELSE "none"

\* displayResult(result): the outcome it prints after the three header lines;
\* videoUrl is whether one of the four URL fields of the result is truthy.
displayResult(task_status, videoUrl) ==
  IF task_status = "SUCCESS"
    THEN IF videoUrl THEN "success" ELSE "successNoUrl"
    ELSE IF task_status = "PROCESSING" THEN "stillProcessing"
    ELSE IF task_status = "FAIL" THEN "failed"
    ELSE "none"

\* const { zai, task } = await create()
VideoCreate ==
  /\ video.pc = "create"
  /\ \/ video' = [video EXCEPT !.pc = "firstQuery"]
     \/ video' = VideoThrown
  /\ UNCHANGED <<navVars, libVars>>

\* let result = await zai.async.result.query(taskId), then the test for an
\* immediate SUCCESS.
VideoFirstQuery ==
  /\ video.pc = "firstQuery"
  /\ \/ \E s \in TaskStatuses :
          video' = [video EXCEPT !.status = s, !.queries = @ + 1,
                                 !.pc = IF s = "SUCCESS" THEN "displayImmediate"
                                        ELSE "loopTest"]
     \/ video' = [VideoThrown EXCEPT !.queries = @ + 1]
  /\ UNCHANGED <<navVars, libVars>>

\* displayResult(result); return result  (task completed immediately)
VideoDisplayImmediate ==
  /\ video.pc = "displayImmediate"
  /\ \E videoUrl \in BOOLEAN :
       video' = [video EXCEPT !.displays = @ + 1, !.pc = "done",
                              !.reported = displayResult(video.status, videoUrl)]
  /\ UNCHANGED <<navVars, libVars>>

VideoLoopTest_OffByOne ==
  /\ video.pc = "loopTest"
  /\ video' = IF video.status = "PROCESSING" /\ video.pollCount <= maxPolls
                THEN [video EXCEPT !.pollCount = @ + 1, !.pc = "wait"]
                ELSE [video EXCEPT !.pc = "display"]
  /\ UNCHANGED <<navVars, libVars>>

\* while (result.task_status === 'PROCESSING' && pollCount < maxPolls) { pollCount++ ...
VideoLoopTest ==
  /\ video.pc = "loopTest"
  /\ video' = IF video.status = "PROCESSING" /\ video.pollCount < maxPolls
                THEN [video EXCEPT !.pollCount = @ + 1, !.pc = "wait"]
                ELSE [video EXCEPT !.pc = "display"]
  /\ UNCHANGED <<navVars, libVars>>

\* await new Promise(resolve => setTimeout(resolve, pollInterval))
VideoWait ==
  /\ video.pc = "wait"
  /\ video' = [video EXCEPT !.pc = "pollQuery"]
  /\ UNCHANGED <<navVars, libVars>>

\* result = await zai.async.result.query(taskId)
VideoPollQuery ==
  /\ video.pc = "pollQuery"
  /\ \/ \E s \in TaskStatuses :
          video' = [video EXCEPT !.status = s, !.queries = @ + 1, !.pc = "loopTest"]
     \/ video' = [VideoThrown EXCEPT !.queries = @ + 1]
  /\ UNCHANGED <<navVars, libVars>>

\* displayResult(result); return result  (after the loop)
VideoDisplay ==
  /\ video.pc = "display"
  /\ \E videoUrl \in BOOLEAN :
       video' = [video EXCEPT !.displays = @ + 1, !.pc = "done",
                              !.reported = displayResult(video.status, videoUrl)]
  /\ UNCHANGED <<navVars, libVars>>

NextVideo ==
  \/ VideoCreate
  \/ VideoFirstQuery
  \/ VideoDisplayImmediate
  \/ VideoLoopTest
  \/ VideoWait
  \/ VideoPollQuery
  \/ VideoDisplay

\* Node runs the script until it ends: every await settles and every timer
\* fires.
SpecVideo == InitVideo /\ [][NextVideo]_vars /\ WF_vars(NextVideo)

VideoEnded == video.pc \in {"done", "exited"}

PollLoopBounded ==
  /\ video.pollCount <= maxPolls
  /\ video.queries <= 1 + maxPolls
  \* every further query follows a PROCESSING status
  /\ video.pc \in {"wait", "pollQuery"} =>
       /\ video.status = "PROCESSING"
       /\ video.queries = video.pollCount
  \* one initial query, then one query per poll
  /\ video.pc \in {"loopTest", "display", "displayImmediate", "done"} =>
       video.queries = video.pollCount + 1
  \* the loop is left at the first status other than PROCESSING, or after
  \* maxPolls polls
  /\ video.pc \in {"display", "done"} =>
       (video.status # "PROCESSING" \/ video.pollCount = maxPolls)
  /\ (video.pc = "loopTest" /\ video.status # "PROCESSING") =>
       ~ENABLED (VideoLoopTest /\ video'.pc = "wait")

\* C20: query() issues one initial query and at most maxPolls further ones,
\* each after a PROCESSING status, stops at the first other status, and the
\* run ends for every sequence of statuses.
C20_PollLoopBoundedAndEnds == []PollLoopBounded /\ <>VideoEnded

\* The task succeeds at the last poll allowed.
C20_Witness ==
  /\ video.pc = "done"
  /\ video.queries = maxPolls + 1
  /\ video.status = "SUCCESS"

PollsExhausted == video.status = "PROCESSING" /\ video.pollCount = maxPolls

\* C21: a task still PROCESSING after the last poll leaves the loop for
\* displayResult, which reports it as still processing; nothing is thrown and
\* neither a SUCCESS nor a FAIL outcome is reported.
C21_ExhaustionNotAnError ==
  /\ (video.pc = "loopTest" /\ PollsExhausted) =>
       ~ENABLED (VideoLoopTest /\ video'.pc # "display")
  /\ (video.pc = "display" /\ PollsExhausted) =>
       /\ ~video.threw
       /\ ~ENABLED (VideoDisplay /\ video'.reported # "stillProcessing")
  /\ (video.pc = "done" /\ video.status = "PROCESSING") =>
       /\ PollsExhausted
       /\ ~video.threw
       /\ video.exitCode = 0
       /\ video.reported = "stillProcessing"

C21_Witness ==
  /\ video.pc = "done"
  /\ PollsExhausted
  /\ video.queries = maxPolls + 1
  /\ video.reported = "stillProcessing"

\* C22: the run ends with exit code 1 exactly when create() or a query threw;
\* a FAIL task or an exhausted PROCESSING task is displayed and the run ends
\* without the error exit; displayResult is called exactly once in a run
\* without a throw, and never in one with a throw.
C22_ExitCodeAndDisplay ==
  /\ video.exitCode \in {0, 1}
  /\ video.exitCode = 1 <=> video.threw
  /\ video.threw <=> video.pc = "exited"
  /\ video.displays = (IF video.pc = "done" THEN 1 ELSE 0)
  /\ (video.pc = "done" /\ video.status \in {"FAIL", "PROCESSING"}) =>
       /\ video.exitCode = 0
       /\ video.reported = displayResult(video.status, FALSE)

C22_Witness ==
  /\ video.pc = "exited"
  /\ video.exitCode = 1
  /\ video.pollCount > 0

\* ------------------------------------------------------------------------
\* ThemeProvider (skills/frontend-design/examples/typescript/theme-provider.tsx)
\* ------------------------------------------------------------------------
\* type Theme
Themes == {"light", "dark", "system"}

\* storageKey props in use on one origin ('ui-theme' is the default)
StorageKeys == {"ui-theme", "app-theme"}

\* What localStorage.getItem can return: null, or any string
StoredValues == Themes \cup {None, "", "auto"}

\* window.matchMedia('(prefers-color-scheme: dark)').matches ? 'dark' : 'light'
systemTheme(matches) == IF matches THEN "dark" ELSE "light"

\* effectiveTheme === 'light' ? 'dark' : 'light'
Opposite(effective) == IF effective = "light" THEN "dark" ELSE "light"

StoredTheme_NoValidation(storage, storageKey, defaultTheme) ==
  IF Truthy(storage[storageKey]) THEN storage[storageKey] ELSE defaultTheme

\* The initializer of the theme state
StoredTheme(storage, storageKey, defaultTheme) ==
  IF Truthy(storage[storageKey]) /\ storage[storageKey] \in Themes
    THEN storage[storageKey]
    ELSE defaultTheme

\* The initializer of the effectiveTheme state, and the value both branches
\* of the first effect compute
Resolve(theme, matches) == IF theme = "system" THEN systemTheme(matches) ELSE theme

ThemeState(tp) == [theme |-> tp.theme, effectiveTheme |-> tp.effectiveTheme]

\* The last render saw the current state, and the effects ran for its theme.
Settled(tp) ==
  /\ tp.mounted
  /\ tp.view = ThemeState(tp)
  /\ tp.deps = tp.view.theme

NoThemeOp == [name |-> "none", theme |-> None, viewTheme |-> None, handled |-> FALSE]

\* Observation: the calls made since the provider was last settled, and the
\* effectiveTheme it had then.
Called(tp, name) ==
  IF Settled(tp) THEN [base |-> tp.effectiveTheme, ops |-> <<name>>]
  ELSE [base |-> tp.base,
        ops |-> IF Len(tp.ops) < 2 THEN Append(tp.ops, name) ELSE <<"*", "*", "*">>]

Unmounted(tp) ==
  [tp EXCEPT !.mounted = FALSE, !.defaultTheme = None, !.storageKey = None,
             !.theme = None, !.effectiveTheme = None,
             !.view = [theme |-> None, effectiveTheme |-> None],
             !.deps = None, !.listener = FALSE,
             !.base = None, !.ops = <<>>, !.last = NoThemeOp]

InitTheme ==
  /\ content = <<>>
  /\ selectedChapter = None
  /\ selectedSection = None
  /\ sidebarOpen = TRUE
  /\ viewport = "wide"
  /\ lastOp = [name |-> "init", arg |-> None]
  /\ prev = [chapter |-> None, section |-> None, sidebar |-> TRUE]
  /\ rt = RtIdle
  /\ batch = BatchIdle
  /\ video = VideoNotStarted
  /\ debounced = NotUsed
  /\ throttled = NotUsed
  /\ truncated = NotUsed
  /\ \E m \in BOOLEAN :
       themeProvider =
         [mounted |-> FALSE, defaultTheme |-> None, storageKey |-> None,
          theme |-> None, effectiveTheme |-> None,
          view |-> [theme |-> None, effectiveTheme |-> None],
          deps |-> None, listener |-> FALSE,
          matches |-> m, classList |-> {}, dataTheme |-> None,
          storage |-> [k \in StorageKeys |-> None],
          lastSet |-> [k \in StorageKeys |-> None],
          base |-> None, ops |-> <<>>, last |-> NoThemeOp]

themeFrame == <<content, selectedChapter, selectedSection, sidebarOpen, viewport,
                lastOp, prev, rt, batch, video, debounced, throttled, truncated>>

\* <ThemeProvider defaultTheme=... storageKey=...> mounts: both state
\* initializers run, then the first render; the effects are still to run.
ThemeMount ==
  /\ ~themeProvider.mounted
  /\ \E d \in Themes, k \in StorageKeys :
       LET t == StoredTheme(themeProvider.storage, k, d)
           e == Resolve(t, themeProvider.matches)
       IN themeProvider' =
            [themeProvider EXCEPT
               !.mounted = TRUE, !.defaultTheme = d, !.storageKey = k,
               !.theme = t, !.effectiveTheme = e,
               !.view = [theme |-> t, effectiveTheme |-> e],
               !.deps = None, !.listener = FALSE,
               !.base = e, !.ops = <<>>,
               !.last = [NoThemeOp EXCEPT !.name = "mount"]]
  /\ UNCHANGED themeFrame

\* The provider unmounts: the cleanup of the listener effect runs.
ThemeUnmount ==
  /\ themeProvider.mounted
  /\ themeProvider' = Unmounted(themeProvider)
  /\ UNCHANGED themeFrame

\* A re-render after a state update
ThemeRender ==
  /\ themeProvider.mounted
  /\ themeProvider.view # ThemeState(themeProvider)
  /\ themeProvider' = [themeProvider EXCEPT !.view = ThemeState(themeProvider),
                                            !.last = NoThemeOp]
  /\ UNCHANGED themeFrame

ThemeRunEffects_KeepsListener ==
  /\ themeProvider.mounted
  /\ themeProvider.deps # themeProvider.view.theme
  /\ LET t == themeProvider.view.theme
         e == Resolve(t, themeProvider.matches)
     IN themeProvider' =
          [themeProvider EXCEPT
             !.classList = (@ \ {"light", "dark"}) \cup {e},
             !.dataTheme = e,
             !.effectiveTheme = e,
             !.listener = @ \/ (t = "system"),
             !.deps = t,
             !.last = NoThemeOp]
  /\ UNCHANGED themeFrame

\* The effects of a render whose `theme` differs from the one they last ran
\* for: the cleanup of the listener effect, then both effects in order.
ThemeRunEffects ==
  /\ themeProvider.mounted
  /\ themeProvider.deps # themeProvider.view.theme
  /\ LET t == themeProvider.view.theme
         e == Resolve(t, themeProvider.matches)
     IN themeProvider' =
          [themeProvider EXCEPT
             !.classList = (@ \ {"light", "dark"}) \cup {e},
             !.dataTheme = e,
             !.effectiveTheme = e,
             !.listener = (t = "system"),
             !.deps = t,
             !.last = NoThemeOp]
  /\ UNCHANGED themeFrame

\* setTheme: localStorage.setItem(storageKey, newTheme); setThemeState(newTheme)
setTheme(tp, newTheme) ==
  [tp EXCEPT !.storage[tp.storageKey] = newTheme,
             !.lastSet[tp.storageKey] = newTheme,
             !.theme = newTheme]

\* toggleTheme, as the closure of the last render
toggleTheme(tp) == setTheme(tp, Opposite(tp.view.effectiveTheme))

CallSetTheme ==
  /\ themeProvider.mounted
  /\ \E t \in Themes :
       LET h == Called(themeProvider, "setTheme")
       IN themeProvider' =
            [setTheme(themeProvider, t) EXCEPT
               !.base = h.base, !.ops = h.ops,
               !.last = [NoThemeOp EXCEPT !.name = "setTheme", !.theme = t]]
  /\ UNCHANGED themeFrame

CallToggleTheme ==
  /\ themeProvider.mounted
  /\ LET h == Called(themeProvider, "toggleTheme")
     IN themeProvider' =
          [toggleTheme(themeProvider) EXCEPT
             !.base = h.base, !.ops = h.ops,
             !.last = [NoThemeOp EXCEPT !.name = "toggleTheme"]]
  /\ UNCHANGED themeFrame

\* handleChange of the listener effect
handleChange(tp, matches) ==
  [tp EXCEPT !.classList = (@ \ {"light", "dark"}) \cup {systemTheme(matches)},
             !.dataTheme = systemTheme(matches),
             !.effectiveTheme = systemTheme(matches)]

\* The system colour scheme changes; the media query dispatches 'change' to
\* the listener if one is attached.
SystemChange ==
  /\ LET m  == ~themeProvider.matches
         tp == [themeProvider EXCEPT !.matches = m]
         h  == Called(themeProvider, "systemChange")
     IN themeProvider' =
          [(IF tp.listener THEN handleChange(tp, m) ELSE tp) EXCEPT
             !.base = IF tp.mounted THEN h.base ELSE None,
             !.ops = IF tp.mounted THEN h.ops ELSE <<>>,
             !.last = [name |-> "systemChange", theme |-> tp.theme,
                       viewTheme |-> tp.view.theme, handled |-> tp.listener]]
  /\ UNCHANGED themeFrame

\* Other code of the page writes or removes a storage entry.
StorageWrite ==
  /\ \E k \in StorageKeys, v \in {None, "", "auto"} :
       /\ themeProvider.storage[k] # v
       /\ themeProvider' = [themeProvider EXCEPT !.storage[k] = v,
                                                 !.lastSet[k] = None,
                                                 !.last = NoThemeOp]
  /\ UNCHANGED themeFrame

NextTheme ==
  \/ ThemeMount
  \/ ThemeUnmount
  \/ ThemeRender
  \/ ThemeRunEffects
  \/ CallSetTheme
  \/ CallToggleTheme
  \/ SystemChange
  \/ StorageWrite

SpecTheme == InitTheme /\ [][NextTheme]_vars

RootThemeClasses(tp) == tp.classList \cap {"light", "dark"}

\* C23: once the effects have settled, effectiveTheme is the theme itself
\* when that is 'light' or 'dark' and the system preference when it is
\* 'system', and the document root carries that one theme class.
C23_ThemeResolved ==
  Settled(themeProvider) =>
    /\ themeProvider.effectiveTheme \in {"light", "dark"}
    /\ themeProvider.effectiveTheme =
         (IF themeProvider.theme \in {"light", "dark"}
            THEN themeProvider.theme
            ELSE systemTheme(themeProvider.matches))
    /\ RootThemeClasses(themeProvider) = {themeProvider.effectiveTheme}
    /\ themeProvider.dataTheme = themeProvider.effectiveTheme

\* The system preference changed while the provider followed it.
C23_Witness ==
  /\ Settled(themeProvider)
  /\ themeProvider.theme = "system"
  /\ themeProvider.ops = <<"setTheme", "systemChange">>
  /\ themeProvider.effectiveTheme = "dark"
  /\ themeProvider.classList = {"dark"}

\* C24: one toggleTheme, once rendered, leaves the opposite effectiveTheme
\* and an explicit theme; two toggleTheme calls restore the effectiveTheme
\* they started from, also when no render separates them.
C24_ToggleFlips ==
  Settled(themeProvider) =>
    /\ themeProvider.ops = <<"toggleTheme">> =>
         /\ themeProvider.effectiveTheme = Opposite(themeProvider.base)
         /\ themeProvider.theme \in {"light", "dark"}
    /\ themeProvider.ops = <<"toggleTheme", "toggleTheme">> =>
         themeProvider.effectiveTheme = themeProvider.base

\* C25: a provider mounting with a storageKey starts with the theme last
\* given to setTheme under that key; with no stored value, or one that is no
\* theme, it starts with defaultTheme; setTheme stores its argument.
C25_PersistenceRoundTrip ==
  /\ themeProvider.last.name = "setTheme" =>
       themeProvider.storage[themeProvider.storageKey] = themeProvider.last.theme
  /\ themeProvider.last.name = "mount" =>
       LET k == themeProvider.storageKey
       IN /\ themeProvider.lastSet[k] # None =>
               themeProvider.theme = themeProvider.lastSet[k]
          /\ themeProvider.storage[k] \notin Themes =>
               themeProvider.theme = themeProvider.defaultTheme
          /\ themeProvider.theme \in Themes

C25_Witness ==
  /\ themeProvider.last.name = "mount"
  /\ themeProvider.lastSet[themeProvider.storageKey] = "dark"
  /\ themeProvider.defaultTheme = "light"
  /\ themeProvider.theme = "dark"
  /\ themeProvider.storage[CHOOSE k \in StorageKeys : k # themeProvider.storageKey] = "auto"

\* C26: a change of the system colour scheme reaches effectiveTheme and the
\* root class exactly when the theme is 'system' at that moment; with an
\* explicit theme the listener is gone and the change is not handled.
C26_SystemChangeOnlyInSystemMode ==
  (themeProvider.mounted /\ themeProvider.last.name = "systemChange") =>
    /\ (themeProvider.last.theme = "system" /\ themeProvider.last.viewTheme = "system"
          /\ themeProvider.deps = "system") =>
         /\ themeProvider.last.handled
         /\ themeProvider.effectiveTheme = systemTheme(themeProvider.matches)
         /\ RootThemeClasses(themeProvider) = {systemTheme(themeProvider.matches)}
    /\ (themeProvider.last.theme # "system" /\ themeProvider.last.viewTheme # "system") =>
         ~themeProvider.last.handled

\* ------------------------------------------------------------------------
\* debounce(func, wait) (lib/utils)
\* ------------------------------------------------------------------------
\* Time runs from 0 to MaxTime ms; `wait` and `limit` range over 0..MaxDelay.
MaxTime == 4
MaxDelay == 2

\* The arguments a call can pass on
CallArgs == {"a", "b"}

\* setTimeout: the host adds a timer under an id not in use (ids are truthy)
FreshTimerId(timers) == CHOOSE i \in 1..(Cardinality(timers) + 1) :
                          \A t \in timers : t.id # i

\* clearTimeout(id)
clearTimeout(timers, id) == {t \in timers : t.id # id}

NoCall == [time |-> 0, args |-> None]

InitDebounce ==
  /\ content = <<>>
  /\ selectedChapter = None
  /\ selectedSection = None
  /\ sidebarOpen = TRUE
  /\ viewport = "wide"
  /\ lastOp = [name |-> "init", arg |-> None]
  /\ prev = [chapter |-> None, section |-> None, sidebar |-> TRUE]
  /\ rt = RtIdle
  /\ batch = BatchIdle
  /\ video = VideoNotStarted
  /\ themeProvider = NotUsed
  /\ throttled = NotUsed
  /\ truncated = NotUsed
  /\ \E w \in 0..MaxDelay :
       debounced = [now |-> 0, wait |-> w,
                    timeout |-> <<>>,     \* let timeout = null (<<id>> once set)
                    timers |-> {},        \* the host's pending timers
                    lastCall |-> NoCall,  \* observation: the most recent call
                    unserved |-> FALSE,   \* observation: func has not run since it
                    event |-> "none",     \* observation: the last step
                    lastRun |-> [args |-> None, fresh |-> FALSE]]

debounceFrame == <<content, selectedChapter, selectedSection, sidebarOpen, viewport,
                   lastOp, prev, rt, batch, video, themeProvider, throttled, truncated>>

executedFunction_NoClear(d, args) ==
  LET id == FreshTimerId(d.timers)
  IN [d EXCEPT !.timers = d.timers \cup {[id |-> id, due |-> d.now + d.wait, args |-> args]},
               !.timeout = <<id>>]

\* executedFunction(...args) returned by debounce:
\*   if (timeout) clearTimeout(timeout); timeout = setTimeout(later, wait)
executedFunction(d, args) ==
  LET kept == IF d.timeout # <<>> THEN clearTimeout(d.timers, d.timeout[1]) ELSE d.timers
      id   == FreshTimerId(kept)
  IN [d EXCEPT !.timers = kept \cup {[id |-> id, due |-> d.now + d.wait, args |-> args]},
               !.timeout = <<id>>]

\* A call of the debounced function
DebouncedCall ==
  /\ debounced.now + debounced.wait <= MaxTime
  /\ \E args \in CallArgs :
       debounced' = [executedFunction(debounced, args) EXCEPT
                       !.lastCall = [time |-> debounced.now, args |-> args],
                       !.unserved = TRUE,
                       !.event = "call"]
  /\ UNCHANGED debounceFrame

\* later(): timeout = null; func(...args)
DebounceTimerFire ==
  /\ \E t \in debounced.timers :
       /\ t.due <= debounced.now
       /\ debounced' = [debounced EXCEPT
                          !.timers = @ \ {t},
                          !.timeout = <<>>,
                          !.unserved = FALSE,
                          !.event = "run",
                          !.lastRun = [args |-> t.args, fresh |-> debounced.unserved]]
  /\ UNCHANGED debounceFrame

\* One ms passes; a timer that is due fires before time moves on.
DebounceTick ==
  /\ debounced.now < MaxTime
  /\ \A t \in debounced.timers : debounced.now < t.due
  /\ debounced' = [debounced EXCEPT !.now = @ + 1, !.event = "tick"]
  /\ UNCHANGED debounceFrame

NextDebounce ==
  \/ DebouncedCall
  \/ DebounceTimerFire
  \/ DebounceTick

\* The host runs every timer that is due, and time passes.
SpecDebounce ==
  InitDebounce /\ [][NextDebounce]_vars
    /\ WF_vars(DebounceTimerFire) /\ WF_vars(DebounceTick)

DebounceSafe ==
  \* at most one timer is pending, and it is the one `timeout` names
  /\ Cardinality(debounced.timers) <= 1
  /\ \A t \in debounced.timers : debounced.timeout = <<t.id>>
  /\ (debounced.timeout # <<>>) <=> (debounced.timers # {})
  \* the pending timer is the one of the most recent call
  /\ debounced.unserved <=> (debounced.timers # {})
  /\ \A t \in debounced.timers :
       /\ t.due = debounced.lastCall.time + debounced.wait
       /\ t.args = debounced.lastCall.args
  \* func runs `wait` ms after the most recent call, once, with its arguments
  /\ debounced.event = "run" =>
       /\ debounced.now - debounced.lastCall.time >= debounced.wait
       /\ debounced.lastRun.args = debounced.lastCall.args
       /\ debounced.lastRun.fresh

\* C27: func runs only when `wait` ms have passed since the most recent
\* call, once per burst and with the arguments of the burst's last call;
\* never more than one timer is pending; every burst is followed by its run.
C27_Debounce == []DebounceSafe /\ [](debounced.unserved => <>(~debounced.unserved))

\* A burst of two calls, then the run with the arguments of the second.
C27_Witness ==
  /\ debounced.event = "run"
  /\ debounced.wait = 2
  /\ debounced.lastCall = [time |-> 1, args |-> "b"]
  /\ debounced.lastRun = [args |-> "b", fresh |-> TRUE]
  /\ debounced.now = 3

\* ------------------------------------------------------------------------
\* throttle(func, limit) (lib/utils)
\* ------------------------------------------------------------------------
NoRun == <<>>

InitThrottle ==
  /\ content = <<>>
  /\ selectedChapter = None
  /\ selectedSection = None
  /\ sidebarOpen = TRUE
  /\ viewport = "wide"
  /\ lastOp = [name |-> "init", arg |-> None]
  /\ prev = [chapter |-> None, section |-> None, sidebar |-> TRUE]
  /\ rt = RtIdle
  /\ batch = BatchIdle
  /\ video = VideoNotStarted
  /\ themeProvider = NotUsed
  /\ debounced = NotUsed
  /\ truncated = NotUsed
  /\ \E l \in 0..MaxDelay :
       throttled = [now |-> 0, limit |-> l,
                    inThrottle |-> FALSE,  \* let inThrottle: boolean (undefined is falsy)
                    timers |-> {},         \* the host's pending timers
                    lastRun |-> NoRun,     \* observation: <<time of the last run of func>>
                    prevRun |-> NoRun,     \* observation: <<time of the run before it>>
                    dropped |-> FALSE,     \* observation: some call was dropped
                    event |-> [name |-> "none", args |-> None, ran |-> FALSE,
                               wasThrottled |-> FALSE]]

throttleFrame == <<content, selectedChapter, selectedSection, sidebarOpen, viewport,
                   lastOp, prev, rt, batch, video, themeProvider, debounced, truncated>>

throttledFunction_NoFlag(t, args) ==
  [t EXCEPT !.timers = @ \cup {[id |-> FreshTimerId(t.timers), due |-> t.now + t.limit]},
            !.prevRun = t.lastRun,
            !.lastRun = <<t.now>>,
            !.event = [name |-> "call", args |-> args, ran |-> TRUE,
                       wasThrottled |-> t.inThrottle]]

\* executedFunction(...args) returned by throttle:
\*   if (!inThrottle) { func(...args); inThrottle = true; setTimeout(..., limit) }
throttledFunction(t, args) ==
  IF ~t.inThrottle
    THEN [t EXCEPT !.inThrottle = TRUE,
                   !.timers = @ \cup {[id |-> FreshTimerId(t.timers), due |-> t.now + t.limit]},
                   !.prevRun = t.lastRun,
                   !.lastRun = <<t.now>>,
                   !.event = [name |-> "call", args |-> args, ran |-> TRUE,
                              wasThrottled |-> FALSE]]
    ELSE [t EXCEPT !.dropped = TRUE,
                   !.event = [name |-> "call", args |-> args, ran |-> FALSE,
                              wasThrottled |-> TRUE]]

\* A call of the throttled function
ThrottledCall ==
  /\ throttled.now + throttled.limit <= MaxTime
  /\ \E args \in CallArgs : throttled' = throttledFunction(throttled, args)
  /\ UNCHANGED throttleFrame

\* () => (inThrottle = false)
ThrottleTimerFire ==
  /\ \E t \in throttled.timers :
       /\ t.due <= throttled.now
       /\ throttled' = [throttled EXCEPT
                          !.timers = @ \ {t},
                          !.inThrottle = FALSE,
                          !.event = [name |-> "timer", args |-> None, ran |-> FALSE,
                                     wasThrottled |-> throttled.inThrottle]]
  /\ UNCHANGED throttleFrame

\* One ms passes; a timer that is due fires before time moves on.
ThrottleTick ==
  /\ throttled.now < MaxTime
  /\ \A t \in throttled.timers : throttled.now < t.due
  /\ throttled' = [throttled EXCEPT
                     !.now = @ + 1,
                     !.event = [name |-> "tick", args |-> None, ran |-> FALSE,
                                wasThrottled |-> throttled.inThrottle]]
  /\ UNCHANGED throttleFrame

NextThrottle ==
  \/ ThrottledCall
  \/ ThrottleTimerFire
  \/ ThrottleTick

SpecThrottle == InitThrottle /\ [][NextThrottle]_vars

\* C28: a call made while not throttled runs func at once; a call made within
\* `limit` ms of that run is dropped, with nothing left to run later; two runs
\* are at least `limit` ms apart; a call made after the window runs again.
C28_Throttle ==
  \* a call runs func exactly when it finds the throttle open
  /\ throttled.event.name = "call" =>
       /\ throttled.event.ran <=> ~throttled.event.wasThrottled
       /\ throttled.event.ran => throttled.lastRun = <<throttled.now>>
  \* the throttle is closed exactly during the window after the last run
  /\ throttled.inThrottle =>
       /\ throttled.lastRun # NoRun
       /\ throttled.now <= throttled.lastRun[1] + throttled.limit
  /\ (throttled.lastRun # NoRun
        /\ throttled.now < throttled.lastRun[1] + throttled.limit) => throttled.inThrottle
  /\ (throttled.lastRun # NoRun
        /\ throttled.now > throttled.lastRun[1] + throttled.limit) => ~throttled.inThrottle
  \* a dropped call leaves nothing behind: the only timer is the one that
  \* reopens the throttle, and its firing runs nothing
  /\ Cardinality(throttled.timers) <= 1
  /\ throttled.inThrottle <=> (throttled.timers # {})
  /\ \A t \in throttled.timers : t.due = throttled.lastRun[1] + throttled.limit
  /\ throttled.event.name = "timer" => ~throttled.event.ran
  \* at most one run in any window of `limit` ms
  /\ (throttled.lastRun # NoRun /\ throttled.prevRun # NoRun) =>
       throttled.lastRun[1] - throttled.prevRun[1] >= throttled.limit

\* A run, a call dropped inside its window, and a call that runs once the
\* window is over.
C28_Witness ==
  /\ throttled.limit = 2
  /\ throttled.prevRun = <<0>>
  /\ throttled.lastRun = <<2>>
  /\ throttled.dropped
  /\ throttled.now = 2
  /\ throttled.event.name = "call"
  /\ throttled.event.ran

\* ------------------------------------------------------------------------
\* truncate(text, maxLength) (lib/utils)
\* ------------------------------------------------------------------------
\* Texts of up to MaxTextLen characters, maxLength in 0..MaxMaxLength
MaxTextLen == 4
MaxMaxLength == 5

Chars == {"a", "."}

Texts == UNION {[1..n -> Chars] : n \in 0..MaxTextLen}

Ellipsis == <<".", ".", ".">>

\* String.prototype.slice(start, end) for integers: a negative index counts
\* from the end, and both are clamped to 0..length
SliceIndex(len, i) == IF i < 0 THEN (IF len + i < 0 THEN 0 ELSE len + i)
                      ELSE IF i > len THEN len ELSE i

slice(text, start, end) ==
  LET from == SliceIndex(Len(text), start)
      to   == SliceIndex(Len(text), end)
  IN IF to <= from THEN <<>> ELSE SubSeq(text, from + 1, to)

truncate(text, maxLength) ==
  IF Len(text) <= maxLength THEN text
  ELSE slice(text, 0, maxLength - 3) \o Ellipsis

InitTruncate ==
  /\ content = <<>>
  /\ selectedChapter = None
  /\ selectedSection = None
  /\ sidebarOpen = TRUE
  /\ viewport = "wide"
  /\ lastOp = [name |-> "init", arg |-> None]
  /\ prev = [chapter |-> None, section |-> None, sidebar |-> TRUE]
  /\ rt = RtIdle
  /\ batch = BatchIdle
  /\ video = VideoNotStarted
  /\ themeProvider = NotUsed
  /\ debounced = NotUsed
  /\ throttled = NotUsed
  /\ \E text \in Texts, maxLength \in 0..MaxMaxLength :
       truncated = [pc |-> "called", text |-> text, maxLength |-> maxLength,
                    result |-> <<>>]

TruncateReturn ==
  /\ truncated.pc = "called"
  /\ truncated' = [truncated EXCEPT
                     !.pc = "returned",
                     !.result = truncate(truncated.text, truncated.maxLength)]
  /\ UNCHANGED <<content, selectedChapter, selectedSection, sidebarOpen, viewport,
                 lastOp, prev, rt, batch, video, themeProvider, debounced, throttled>>

NextTruncate == TruncateReturn

SpecTruncate == InitTruncate /\ [][NextTruncate]_vars

EndsWithEllipsis(s) ==
  /\ Len(s) >= 3
  /\ SubSeq(s, Len(s) - 2, Len(s)) = Ellipsis

\* C29: truncate returns a text no longer than maxLength unchanged, and
\* otherwise a string that ends in '...' and is at most maxLength long.
C29_Truncate ==
  truncated.pc = "returned" =>
    IF Len(truncated.text) <= truncated.maxLength
      THEN truncated.result = truncated.text
      ELSE /\ EndsWithEllipsis(truncated.result)
           /\ Len(truncated.result) <= truncated.maxLength

====
